---- MODULE Spec2Model ----
(***************************************************************************)
(* A model of the pinecone-vector-chat service: the in-memory rate         *)
(* limiter of the chat endpoint, the upload and ingest-path endpoints with *)
(* the background ingestion pipeline they start, and the provisioning of   *)
(* the remote vector index.                                                *)
(***************************************************************************)
EXTENDS Integers, Sequences, FiniteSets, TLC

(***************************************************************************)
(* Bounds of the model                                                     *)
(***************************************************************************)
\* how many times the clock advances in one behaviour
MaxTicks == 2
\* how many chat requests the clients other than the observed one send
MaxOtherReqs == 2
\* how many chat requests the racing threads serve in one behaviour
MaxRaceReqs == 3
\* how many paths one call of ingest_documents or one ingest-path request names
MaxPaths == 2
\* how many files one upload request carries
MaxFiles == 2

(***************************************************************************)
(* Program constants                                                       *)
(***************************************************************************)
\* jarvis_assistant.py:66  "now - t < 60"
WINDOW == 60
\* jarvis_assistant.py:68  "len(...) >= 10"
LIMIT == 10

\* the client keys (request.remote_addr) of the model
IPs == {"ip1", "ip2"}
\* the client whose requests are followed without a bound on their number
Observed == "ip1"
\* the amounts of time that pass between two requests
Steps == {1, 59}
\* the request threads of the framework (thread-per-request)
Threads == {"t1", "t2"}

VARIABLES
    clock,              \* time.time()
    ticks,              \* how often the clock advanced
    rate_limit_store,   \* jarvis_assistant.py:56, ip -> list of timestamps
    accepted,           \* history: ip -> timestamps of every accepted request
    last_chat,          \* the last chat request served and its answer
    served,             \* how many requests were begun: by the other clients
                        \* (one at a time), by the racing threads
    thr,                \* the racing threads: position and locals of each
    disk,               \* the local filesystem: the paths that exist
    index,              \* the vectors of the remote index (PINECONE_INDEX_NAME)
    threads,            \* the ingestion threads started and not yet run
    request,            \* the last HTTP request to upload or ingest-path
    response,           \* its response
    run,                \* the last run of ingest_documents and what it did
    desc,               \* the remote index: missing, or its dimension and metric
    prov                \* the last provisioning run and what it did

ingestVars == <<disk, index, threads, request, response, run>>

provVars == <<desc, prov>>

rateVars ==
    <<clock, ticks, rate_limit_store, accepted, last_chat, served, thr>>

vars == <<rateVars, ingestVars, provVars>>

(***************************************************************************)
(* The rate limiter, jarvis_assistant.py:58-72                             *)
(***************************************************************************)
\* a plausible slip: the window closed on the right
PrunedInclusive(list, now) == SelectSeq(list, LAMBDA t : now - t <= WINDOW)

\* line 66: [t for t in rate_limit_store[ip] if now - t < 60]
Pruned(list, now) == SelectSeq(list, LAMBDA t : now - t < WINDOW)

\* line 68: len(rate_limit_store[ip]) >= 10
OverLimit(list) == Len(list) >= LIMIT

\* lines 62-63: if ip not in rate_limit_store: rate_limit_store[ip] = []
WithKey(store, ip) ==
    IF ip \in DOMAIN store THEN store ELSE store @@ (ip :> <<>>)

\* the whole of rate_limit_check for one request, run without interruption:
\* the store it leaves and the value it returns
rate_limit_check(store, ip, now) ==
    LET s1 == [WithKey(store, ip) EXCEPT ![ip] = Pruned(@, now)]
    IN  IF OverLimit(s1[ip])
        THEN [store |-> s1, ok |-> FALSE]
        ELSE [store |-> [s1 EXCEPT ![ip] = Append(@, now)], ok |-> TRUE]

NoChat == [ip |-> "none", now |-> 0, ok |-> FALSE, status |-> 0]

\* nothing observed yet: no run of ingest_documents, no request, no
\* response, no provisioning run
NoRun == [caller |-> "none"]
NoRequest == [endpoint |-> "none"]
NoResponse == [status |-> 0]
NoProv == [op |-> "none"]

\* jarvis_assistant.py:107, setup_pinecone.py:29: the embedding dimension
DIMENSION == 1536

\* the index as both provisioners create it
Created == [dimension |-> DIMENSION, metric |-> "cosine"]

\* the ingestion's and the provisioner's variables, when the model follows
\* the rate limiter
IngestIdle ==
    /\ disk = {}
    /\ index = {}
    /\ threads = <<>>
    /\ request = NoRequest
    /\ response = NoResponse
    /\ run = NoRun
    /\ desc = Created
    /\ prov = NoProv

\* the thread is between two requests
Idle == [pc |-> "idle", ip |-> "none", now |-> 0, tmp |-> <<>>]

InitRate ==
    /\ clock = 0
    /\ ticks = 0
    /\ rate_limit_store = <<>>
    /\ accepted = [i \in IPs |-> <<>>]
    /\ last_chat = NoChat
    /\ served = 0
    /\ thr = [t \in Threads |-> Idle]
    /\ IngestIdle

\* time passes
Tick ==
    /\ ticks < MaxTicks
    /\ \E d \in Steps : clock' = clock + d
    /\ ticks' = ticks + 1
    /\ UNCHANGED <<rate_limit_store, accepted, last_chat, served, thr, ingestVars, provVars>>

\* chat(), lines 180-218: the rate limit first (429), then the answer, whose
\* status depends on the request body and on the remote services
Chat(ip) ==
    LET r == rate_limit_check(rate_limit_store, ip, clock)
    IN  /\ ip = Observed \/ served < MaxOtherReqs
        /\ served' = IF ip = Observed THEN served ELSE served + 1
        /\ rate_limit_store' = r.store
        /\ accepted' = IF r.ok THEN [accepted EXCEPT ![ip] = Append(@, clock)]
                       ELSE accepted
        /\ \E st \in IF r.ok THEN {200, 400, 500, 503} ELSE {429} :
              last_chat' = [ip |-> ip, now |-> clock, ok |-> r.ok, status |-> st]
        /\ UNCHANGED <<clock, ticks, thr, ingestVars, provVars>>

NextRate == Tick \/ \E ip \in IPs : Chat(ip)

SpecRate == InitRate /\ [][NextRate]_vars

\* how many of the timestamps of log fall in the 60 seconds before now
Recent(log, now) == Cardinality({i \in 1..Len(log) : now - log[i] < WINDOW})

\* the requests of last_chat's client accepted before last_chat
Prior ==
    LET log == accepted[last_chat.ip]
    IN  IF last_chat.ok THEN SubSeq(log, 1, Len(log) - 1) ELSE log

\* C1: requests of one key served one at a time: a request arriving at now is
\* accepted, and its timestamp recorded, if and only if fewer than 10
\* requests of that key accepted before it have a timestamp t with
\* now - t < 60; a rejected request is answered 429 and is not recorded.
RateLimitWindow ==
    last_chat # NoChat =>
        LET now  == last_chat.now
            list == rate_limit_store[last_chat.ip]
            log  == accepted[last_chat.ip]
        IN  /\ last_chat.ok <=> Recent(Prior, now) < LIMIT
            /\ last_chat.ok => /\ list = Append(Pruned(Prior, now), now)
                               /\ log[Len(log)] = now
            /\ ~last_chat.ok => /\ list = Pruned(Prior, now)
                                /\ Len(list) = LIMIT
            /\ last_chat.status = 429 <=> ~last_chat.ok

\* C1, its case: the observed client filled a window (10 accepted, the 11th
\* request refused at the same time), and a request made 60 seconds after
\* them is accepted again.
RateLimitWindowWitness ==
    /\ last_chat.ip = Observed
    /\ last_chat.ok
    /\ last_chat.now = WINDOW
    /\ Len(accepted[Observed]) = LIMIT + 1
    /\ \A i \in 1..LIMIT : accepted[Observed][i] = 0

(***************************************************************************)
(* The rate limiter under thread-per-request: rate_limit_check has no lock,*)
(* so its statements interleave. Each thread runs lines 60-72 one          *)
(* statement at a time.                                                    *)
(***************************************************************************)
\* a client that already had n requests accepted, one at a time, at time 0
InitRace ==
    /\ clock = 0
    /\ ticks = 0
    /\ \E n \in 0..(LIMIT - 1) :
          /\ rate_limit_store =
                IF n = 0 THEN <<>> ELSE (Observed :> [i \in 1..n |-> 0])
          /\ accepted = [i \in IPs |-> IF i = Observed THEN [j \in 1..n |-> 0]
                                       ELSE <<>>]
    /\ last_chat = NoChat
    /\ served = 0
    /\ thr = [t \in Threads |-> Idle]
    /\ IngestIdle

\* lines 60-62: ip, now, and the test "ip not in rate_limit_store"
RaceBegin(t) ==
    /\ thr[t].pc = "idle"
    /\ served < MaxRaceReqs
    /\ served' = served + 1
    /\ thr' = [thr EXCEPT ![t] =
            [pc  |-> IF Observed \in DOMAIN rate_limit_store
                     THEN "filter" ELSE "init_key",
             ip  |-> Observed, now |-> clock, tmp |-> <<>>]]
    /\ UNCHANGED <<clock, ticks, rate_limit_store, accepted, last_chat, ingestVars, provVars>>

\* line 63: rate_limit_store[ip] = []
RaceInitKey(t) ==
    /\ thr[t].pc = "init_key"
    /\ rate_limit_store' =
            [WithKey(rate_limit_store, thr[t].ip) EXCEPT ![thr[t].ip] = <<>>]
    /\ thr' = [thr EXCEPT ![t].pc = "filter"]
    /\ UNCHANGED <<clock, ticks, accepted, last_chat, served, ingestVars, provVars>>

\* line 66, right-hand side: the list comprehension builds a new list
RaceFilter(t) ==
    /\ thr[t].pc = "filter"
    /\ thr' = [thr EXCEPT ![t].pc = "assign",
                          ![t].tmp = Pruned(rate_limit_store[thr[t].ip],
                                            thr[t].now)]
    /\ UNCHANGED <<clock, ticks, rate_limit_store, accepted, last_chat, served,
                   ingestVars, provVars>>

\* line 66, the assignment: rate_limit_store[ip] = <the new list>
RaceAssign(t) ==
    /\ thr[t].pc = "assign"
    /\ rate_limit_store' =
            [rate_limit_store EXCEPT ![thr[t].ip] = thr[t].tmp]
    /\ thr' = [thr EXCEPT ![t].pc = "test_len"]
    /\ UNCHANGED <<clock, ticks, accepted, last_chat, served, ingestVars, provVars>>

\* lines 68-69: if len(rate_limit_store[ip]) >= 10: return False
RaceTestLen(t) ==
    /\ thr[t].pc = "test_len"
    /\ IF OverLimit(rate_limit_store[thr[t].ip])
       THEN /\ thr' = [thr EXCEPT ![t] = Idle]
            /\ last_chat' = [ip |-> thr[t].ip, now |-> thr[t].now,
                             ok |-> FALSE, status |-> 429]
       ELSE /\ thr' = [thr EXCEPT ![t].pc = "append"]
            /\ UNCHANGED last_chat
    /\ UNCHANGED <<clock, ticks, rate_limit_store, accepted, served, ingestVars, provVars>>

\* lines 71-72: rate_limit_store[ip].append(now); return True
RaceAppend(t) ==
    /\ thr[t].pc = "append"
    /\ rate_limit_store' =
            [rate_limit_store EXCEPT ![thr[t].ip] = Append(@, thr[t].now)]
    /\ accepted' = [accepted EXCEPT ![thr[t].ip] = Append(@, thr[t].now)]
    /\ last_chat' = [ip |-> thr[t].ip, now |-> thr[t].now,
                     ok |-> TRUE, status |-> 200]
    /\ thr' = [thr EXCEPT ![t] = Idle]
    /\ UNCHANGED <<clock, ticks, served, ingestVars, provVars>>

NextRace ==
    \/ Tick
    \/ \E t \in Threads :
          \/ RaceBegin(t)
          \/ RaceInitKey(t)
          \/ RaceFilter(t)
          \/ RaceAssign(t)
          \/ RaceTestLen(t)
          \/ RaceAppend(t)

SpecRace == InitRace /\ [][NextRace]_vars

\* how often v occurs in list
Count(list, v) == Cardinality({i \in 1..Len(list) : list[i] = v})

\* the stored list of a client, empty when the client has no entry
Stored(ip) ==
    IF ip \in DOMAIN rate_limit_store THEN rate_limit_store[ip] ELSE <<>>

\* at most 10 accepted requests of one client have timestamps inside any
\* 60-second window
AtMostLimitPerWindow ==
    \A ip \in IPs : \A i \in 1..Len(accepted[ip]) :
        Cardinality({j \in 1..Len(accepted[ip]) :
                        /\ accepted[ip][j] >= accepted[ip][i]
                        /\ accepted[ip][j] - accepted[ip][i] < WINDOW}) <= LIMIT

\* every accepted request's timestamp is in the client's stored list until it
\* is older than 60 seconds
NoAcceptedLost ==
    \A ip \in IPs : \A i \in 1..Len(accepted[ip]) :
        clock - accepted[ip][i] < WINDOW =>
            Count(Stored(ip), accepted[ip][i]) >= Count(accepted[ip], accepted[ip][i])

\* C8: chat requests of one client handled on concurrent threads: under every
\* interleaving of the statements of rate_limit_check at most 10 requests
\* with timestamps inside any 60-second window are accepted, and no accepted
\* request is lost from the client's stored list while it is younger than
\* 60 seconds.
RaceKeepsLimit == AtMostLimitPerWindow /\ NoAcceptedLost

(***************************************************************************)
(* File names and paths. A file name is the sequence of its parts between  *)
(* dots: "a.txt" is <<"a", "txt">>, ".txt" is <<"", "txt">>, "notes" is    *)
(* <<"notes">>, the empty name is <<"">>. A path is a directory and a file *)
(* name, in absolute form; the directory itself has the name <<>>.         *)
(***************************************************************************)
\* jarvis_assistant.py:32
UPLOAD_FOLDER == "docs"
\* jarvis_assistant.py:33
ALLOWED_EXTENSIONS == {"txt", "pdf"}

Path(dir, name) == [dir |-> dir, name |-> name]
\* os.path.basename
basename(p) == p.name
\* the directory dir itself
Folder(dir) == Path(dir, <<>>)

\* str.lower on the file name parts of the model
Lower(s) ==
    CASE s = "TXT" -> "txt"
      [] s = "PDF" -> "pdf"
      [] s = "EXE" -> "exe"
      [] OTHER -> s

\* '.' in filename
HasDot(name) == Len(name) >= 2

\* a plausible slip: any name with a dot passes
allowed_file_any(filename) == HasDot(filename)

\* jarvis_assistant.py:220-221
allowed_file(filename) ==
    HasDot(filename) /\ Lower(filename[Len(filename)]) \in ALLOWED_EXTENSIONS

\* str.endswith('.' + ext), ingest.py:78, 97, 106: case-sensitive
EndsWith(name, ext) == HasDot(name) /\ name[Len(name)] = ext

RECURSIVE StripLeft(_)
StripLeft(name) ==
    IF name # <<>> /\ Head(name) = "" THEN StripLeft(Tail(name)) ELSE name

RECURSIVE StripRight(_)
StripRight(name) ==
    IF name # <<>> /\ name[Len(name)] = ""
    THEN StripRight(SubSeq(name, 1, Len(name) - 1)) ELSE name

\* werkzeug's secure_filename as far as the names of the model go: it keeps
\* letters, digits and inner dots, keeps the letter case, and strips leading
\* and trailing dots (.strip("._"))
secure_filename(filename) == StripRight(StripLeft(filename))

\* the file names of the model
Na == <<"a", "txt">>
NA == <<"a", "TXT">>
Nb == <<"b", "pdf">>
Nx == <<"m", "exe">>
Nd == <<"", "txt">>
Ne == <<"">>
Ng == <<"gone", "txt">>

\* the names a client uploads files under
UploadNames == {Na, NA, Nb, Nx, Nd, Ne}

\* files outside the upload folder, named by path: Pg never exists
Pa == Path("data", Na)
Pb == Path("data", Nb)
PA == Path("data", NA)
Pg == Path("data", Ng)
CallPaths == {Pa, Pb, PA, Pg}

\* os.listdir(docs_folder): the entries a folder can hold, in listing order
Listing(dir) ==
    <<Path(dir, Na), Path(dir, NA), Path(dir, Nb), Path(dir, Nx),
      Path(dir, <<"txt">>)>>

\* all sequences over S of length lo..hi
SeqsOf(S, lo, hi) == UNION {[1..n -> S] : n \in lo..hi}

Range(f) == {f[i] : i \in DOMAIN f}

(***************************************************************************)
(* ingest_documents, ingest.py:38-136.  Its arguments are a record         *)
(* [docs_folder, file_path, chunk_size, chunk_overlap, clear_existing]     *)
(* (file_path <<>> is None or an empty list: both are falsy at line 64).   *)
(* What the outside world answers is a record env: env_ok (the three       *)
(* environment variables are set), clear (the delete-all call), load (per  *)
(* file of files_to_process: what reading and splitting it gives: an       *)
(* error, no text, or two chunks), upsert (from_documents).                *)
(***************************************************************************)
Loads == {"error", "empty", "two"}

NChunks(outcome) == IF outcome = "two" THEN 2 ELSE 0

\* ingest.py:97, 106: the loading branch a file name takes
Branch(name) ==
    IF EndsWith(name, "pdf") THEN "pdf"
    ELSE IF EndsWith(name, "txt") THEN "txt"
    ELSE "none"

\* a plausible slip: the text read before the error is kept and chunked
LoadFileKeepsPartial(p, outcome) ==
    IF Branch(basename(p)) = "none" THEN <<>>
    ELSE [i \in 1..(IF outcome = "error" THEN 1 ELSE NChunks(outcome)) |->
            [source |-> basename(p), type |-> Branch(basename(p)), part |-> i]]

\* ingest.py:95-118, one pass of the loop: the chunks file p adds to
\* documents. extract_text_from_pdf (25-36) returns None on any error and
\* the .txt branch catches every exception, so an error adds nothing;
\* neither does an empty text ("if text:", and no chunk of an empty document)
LoadFile(p, outcome) ==
    IF Branch(basename(p)) = "none" THEN <<>>
    ELSE [i \in 1..NChunks(outcome) |->
            [source |-> basename(p), type |-> Branch(basename(p)), part |-> i]]

\* ingest.py:94-118: documents after the loop over files_to_process
RECURSIVE LoadAll(_, _)
LoadAll(files, load) ==
    IF files = <<>> THEN <<>>
    ELSE LoadFile(Head(files), Head(load)) \o LoadAll(Tail(files), Tail(load))

\* ingest.py:63-79: files_to_process
ResolveFiles(d, a) ==
    IF a.file_path # <<>>
    THEN SelectSeq(a.file_path, LAMBDA p : p \in d)
    ELSE IF Folder(a.docs_folder) \notin d THEN <<>>
    ELSE SelectSeq(Listing(a.docs_folder),
                   LAMBDA p : /\ p \in d
                              /\ \/ EndsWith(basename(p), "pdf")
                                 \/ EndsWith(basename(p), "txt"))

\* a plausible slip: an error of the delete-all call reaches the caller
ClearStepRaising(idx, a, env) ==
    IF ~a.clear_existing THEN [index |-> idx, raised |-> FALSE]
    ELSE IF env.clear = "ok" THEN [index |-> {}, raised |-> FALSE]
    ELSE [index |-> idx, raised |-> TRUE]

\* ingest.py:52-61: the optional delete-all; raised says whether an
\* exception leaves the try block, and "except Exception" lets none
ClearStep(idx, a, env) ==
    IF a.clear_existing /\ env.clear = "ok"
    THEN [index |-> {}, raised |-> FALSE]
    ELSE [index |-> idx, raised |-> FALSE]

\* what a call leaves and returns; result is "True", "False", or "raise"
\* when an exception leaves the function
Outcome(result, d, idx, files, batch, upsert_called) ==
    [result |-> result, disk |-> d, index |-> idx, files |-> files,
     batch |-> batch, upsert_called |-> upsert_called]

ingest_documents(d, idx, a, env) ==
    LET cleared == ClearStep(idx, a, env)
        files   == ResolveFiles(d, a)
        batch   == LoadAll(files, env.load)
    IN  IF ~env.env_ok                                      \* 46-47
        THEN Outcome("False", d, idx, <<>>, <<>>, FALSE)
        ELSE IF cleared.raised
        THEN Outcome("raise", d, cleared.index, <<>>, <<>>, FALSE)
        ELSE IF a.file_path = <<>> /\ Folder(a.docs_folder) \notin d   \* 74-76
        THEN Outcome("False", d \cup {Folder(a.docs_folder)}, cleared.index,
                     <<>>, <<>>, FALSE)
        ELSE IF files = <<>>                                \* 81-83
        THEN Outcome("False", d, cleared.index, files, <<>>, FALSE)
        \* 88-92: the splitter refuses an overlap larger than the chunk size
        ELSE IF a.chunk_overlap > a.chunk_size
        THEN Outcome("raise", d, cleared.index, files, <<>>, FALSE)
        ELSE IF batch = <<>>                                \* 120-121
        THEN Outcome("False", d, cleared.index, files, batch, FALSE)
        ELSE IF env.upsert = "ok"                           \* 125-133
        THEN Outcome("True", d, cleared.index \cup Range(batch), files,
                     batch, TRUE)
        ELSE Outcome("False", d, cleared.index, files, batch, TRUE)  \* 134-136


\* the sizes a caller of ingest_documents passes: the defaults, and a chunk
\* size below the overlap
CallSizes == {<<1000, 200>>, <<150, 200>>}

Args(folder, paths, size, overlap, clear) ==
    [docs_folder |-> folder, file_path |-> paths, chunk_size |-> size,
     chunk_overlap |-> overlap, clear_existing |-> clear]

Env(env_ok, clear, load, upsert) ==
    [env_ok |-> env_ok, clear |-> clear, load |-> load, upsert |-> upsert]


\* the record of one run of ingest_documents
RunRecord(caller, a, env, out) ==
    [caller |-> caller, args |-> a, env |-> env, out |-> out,
     index_before |-> index]

\* one run of ingest_documents(a) by caller, against every answer of the
\* outside world; the answers the run never asks for are left "unused"
RunIngest(caller, a) ==
    \E env_ok \in BOOLEAN :
    \E clear \in IF env_ok /\ a.clear_existing THEN {"ok", "error"}
                 ELSE {"unused"} :
    \E load \in [1..(IF env_ok THEN Len(ResolveFiles(disk, a)) ELSE 0) -> Loads] :
    \E upsert \in IF env_ok /\ LoadAll(ResolveFiles(disk, a), load) # <<>>
                     /\ a.chunk_overlap <= a.chunk_size
                  THEN {"ok", "error"} ELSE {"unused"} :
        LET env == Env(env_ok, clear, load, upsert)
            out == ingest_documents(disk, index, a, env)
        IN  /\ disk' = out.disk
            /\ index' = out.index
            /\ run' = RunRecord(caller, a, env, out)

\* a started ingestion thread: the endpoint that started it, the keyword
\* arguments it runs ingest_documents with, and the names the files were
\* uploaded under
Thread(origin, a, names) == [origin |-> origin, args |-> a, names |-> names]

\* threading.Thread(target=ingest_documents, kwargs=...) runs: the thread
\* started first runs first, from start to end
ThreadRun ==
    /\ threads # <<>>
    /\ request = NoRequest
    /\ run = NoRun
    /\ RunIngest(Head(threads).origin, Head(threads).args)
    /\ threads' = Tail(threads)
    /\ UNCHANGED <<request, response>>
    /\ UNCHANGED <<rateVars, provVars>>

\* a direct call of ingest_documents: the command line (ingest.py:138-139,
\* all defaults) or any importer of the module
DirectIngest ==
    /\ run = NoRun
    /\ \E paths \in SeqsOf(CallPaths, 0, MaxPaths), sz \in CallSizes,
          clear \in BOOLEAN :
          RunIngest("direct", Args(UPLOAD_FOLDER, paths, sz[1], sz[2], clear))
    /\ UNCHANGED <<threads, request, response>>
    /\ UNCHANGED <<rateVars, provVars>>

\* the rate limiter's variables, when the model follows the ingestion
RateIdle ==
    /\ clock = 0
    /\ ticks = 0
    /\ rate_limit_store = <<>>
    /\ accepted = [i \in IPs |-> <<>>]
    /\ last_chat = NoChat
    /\ served = 0
    /\ thr = [t \in Threads |-> Idle]

\* a caller's filesystem: the files under data/ exist, the docs folder may
\* be missing, empty, or hold files
InitIngest ==
    /\ RateIdle
    /\ \E docs \in {{}, {Folder(UPLOAD_FOLDER)},
                     {Folder(UPLOAD_FOLDER), Path(UPLOAD_FOLDER, Nx)},
                     {Folder(UPLOAD_FOLDER), Path(UPLOAD_FOLDER, Na),
                      Path(UPLOAD_FOLDER, NA)}} :
          disk = {Pa, Pb, PA} \cup docs
    /\ index = {}
    /\ threads = <<>>
    /\ request = NoRequest
    /\ response = NoResponse
    /\ run = NoRun
    /\ desc = Created
    /\ prov = NoProv

\* the observer drops the record of the last request and the last run
Forget ==
    /\ request # NoRequest \/ run # NoRun
    /\ request' = NoRequest
    /\ response' = NoResponse
    /\ run' = NoRun
    /\ UNCHANGED <<disk, index, threads>>
    /\ UNCHANGED <<rateVars, provVars>>

NextIngest == DirectIngest \/ Forget

SpecIngest == InitIngest /\ [][NextIngest]_vars

\* the last run got as far as resolving its file set, and found it empty:
\* every explicit path is missing, or the scanned folder holds no file
\* whose name ends in .pdf or .txt
ResolvedEmpty ==
    /\ run # NoRun
    /\ run.env.env_ok
    /\ IF run.args.file_path # <<>>
       THEN \A i \in 1..Len(run.args.file_path) : run.args.file_path[i] \notin disk
       ELSE \A p \in disk :
              (p.dir = run.args.docs_folder /\ p.name # <<>>) =>
                  p.name[Len(p.name)] \notin {"pdf", "txt"}

\* C2: whenever ingest_documents resolves an empty file set it returns
\* failure without side effects: the upsert step is not called and the
\* index holds exactly the vectors it held before the call, for every value
\* of clear_existing.
EmptyFileSetNoSideEffects ==
    ResolvedEmpty =>
        /\ run.out.result = "False"
        /\ ~run.out.upsert_called
        /\ index = run.index_before

\* the last run was asked to clear the index and the delete-all call failed
ClearFailed ==
    /\ run # NoRun
    /\ run.args.clear_existing
    /\ run.env.clear = "error"

\* file i of the run's files_to_process was read and gave chunks
Loaded(i) ==
    /\ run.out.files[i].name[Len(run.out.files[i].name)] \in {"pdf", "txt"}
    /\ run.env.load[i] = "two"

\* C5: when clear_existing is set and the delete-all call fails, no error of
\* it reaches the caller: nothing is deleted, the existing files are
\* resolved, loaded and upserted, and the result is success exactly when
\* chunks were produced and the upsert succeeded.
ClearFailureSwallowed ==
    ClearFailed =>
        /\ run.out.result = "raise" => run.args.chunk_overlap > run.args.chunk_size
        /\ run.index_before \subseteq index
        /\ \A i \in 1..Len(run.args.file_path) :
              run.args.file_path[i] \in disk =>
                  run.args.file_path[i] \in Range(run.out.files)
        /\ (/\ run.args.chunk_overlap <= run.args.chunk_size
            /\ \E i \in 1..Len(run.out.files) : Loaded(i))
              => run.out.upsert_called
        /\ run.out.result = "True" <=>
              (run.out.batch # <<>> /\ run.env.upsert = "ok")

\* C5, its case: the delete-all call failed and the run went on to upsert
\* the chunks of its files and returned success.
ClearFailureSwallowedWitness ==
    /\ ClearFailed
    /\ run.out.result = "True"
    /\ run.out.upsert_called
    /\ run.out.batch # <<>>

\* the last run reached the loading loop and some file failed to load
SomeLoadFailed ==
    /\ run # NoRun
    /\ run.env.env_ok
    /\ run.args.chunk_overlap <= run.args.chunk_size
    /\ \E i \in 1..Len(run.out.files) : run.env.load[i] = "error"

\* how many chunks the files that loaded give together
RECURSIVE ChunkTotal(_)
ChunkTotal(i) ==
    IF i = 0 THEN 0
    ELSE ChunkTotal(i - 1) + (IF Loaded(i) THEN NChunks(run.env.load[i]) ELSE 0)

\* C6: when some files of the list fail to load, each failing file is
\* skipped without raising, the batch handed to the upsert step holds all
\* chunks of every file that loaded and no chunk of a failing file, and the
\* call succeeds when a file produced chunks and the upsert succeeds.
LoadErrorsIsolated ==
    SomeLoadFailed =>
        /\ run.out.result # "raise"
        /\ Len(run.out.batch) = ChunkTotal(Len(run.out.files))
        /\ \A i \in 1..Len(run.out.files) :
              Loaded(i) =>
                  \A k \in 1..NChunks(run.env.load[i]) :
                      \E j \in 1..Len(run.out.batch) :
                          /\ run.out.batch[j].source = basename(run.out.files[i])
                          /\ run.out.batch[j].part = k
        /\ \A j \in 1..Len(run.out.batch) :
              \E i \in 1..Len(run.out.files) :
                  /\ Loaded(i)
                  /\ run.out.batch[j].source = basename(run.out.files[i])
                  /\ run.out.batch[j].part <= NChunks(run.env.load[i])
        /\ (run.out.batch # <<>> /\ run.env.upsert = "ok")
              => (run.out.result = "True" /\ Range(run.out.batch) \subseteq index)

\* C6, its case: of two files one failed to load and the other gave two
\* chunks; the batch holds these two and the call succeeded.
LoadErrorsIsolatedWitness ==
    /\ SomeLoadFailed
    /\ Len(run.out.files) = 2
    /\ run.out.files[1] # run.out.files[2]
    /\ run.env.load[1] = "error"
    /\ Loaded(2)
    /\ Len(run.out.batch) = 2
    /\ run.out.result = "True"


(***************************************************************************)
(* The HTTP surface: upload_file and ingest_by_path,                       *)
(* jarvis_assistant.py:223-304.                                            *)
(***************************************************************************)
\* a form field or JSON member that int() is applied to: absent, digits
\* (or a JSON number), or anything int() refuses
Absent == [kind |-> "absent", val |-> 0]
Digits(n) == [kind |-> "digits", val |-> n]
Junk == [kind |-> "junk", val |-> 0]

\* int(request.form.get(key, default)), lines 247-248, 288-289
ParseInt(raw, default) ==
    CASE raw.kind = "absent" -> [ok |-> TRUE, val |-> default]
      [] raw.kind = "digits" -> [ok |-> TRUE, val |-> raw.val]
      [] OTHER -> [ok |-> FALSE, val |-> 0]

\* the values a client sends for chunk_size and chunk_overlap
RawChunkSizes == {Absent, Digits(50), Junk}
RawOverlaps == {Absent, Digits(2000)}

Response(status, error, listed, started, written) ==
    [status |-> status, error |-> error, listed |-> listed,
     started |-> started, written |-> written]

\* what a handler does: its response, the filesystem it leaves, and the
\* threads it starts
Handled(resp, d, started) == [response |-> resp, disk |-> d, threads |-> started]

MapSeq(f, Op(_)) == [i \in 1..Len(f) |-> Op(f[i])]

\* jarvis_assistant.py:223-261. A request is
\* [endpoint, has_part, files, chunk_size, chunk_overlap]: has_part says
\* whether the form has a 'file' part, files are the uploaded names
upload_file(d, req) ==
    LET valid == SelectSeq(req.files, allowed_file)              \* 236-237
        filenames == MapSeq(valid, secure_filename)               \* 238
        saved_paths == MapSeq(filenames, LAMBDA n : Path(UPLOAD_FOLDER, n))
        d1 == d \cup Range(saved_paths)                            \* 240
        size == ParseInt(req.chunk_size, 1000)
        overlap == ParseInt(req.chunk_overlap, 200)
    IN  IF ~req.has_part                                        \* 226-227
        THEN Handled(Response(400, "No file part", <<>>, FALSE, {}), d, <<>>)
        ELSE IF req.files = <<>> \/ req.files[1] = Ne           \* 230-231
        THEN Handled(Response(400, "No selected file", <<>>, FALSE, {}), d, <<>>)
        ELSE IF saved_paths = <<>>                              \* 244-245
        THEN Handled(Response(400, "No valid file types supported", <<>>,
                              FALSE, {}), d, <<>>)
        ELSE IF ~size.ok \/ ~overlap.ok                         \* 247-248
        THEN Handled(Response(500, "ValueError", <<>>, FALSE,
                              Range(saved_paths)), d1, <<>>)
        ELSE Handled(Response(200, "", <<>>, TRUE, Range(saved_paths)), d1,
                     <<Thread("upload",
                              Args(UPLOAD_FOLDER, saved_paths, size.val,
                                   overlap.val, FALSE),
                              valid)>>)

\* the upload requests of the model
UploadRequests ==
    {[endpoint |-> "upload", has_part |-> hp, files |-> fs,
      chunk_size |-> cs, chunk_overlap |-> co] :
        hp \in BOOLEAN, fs \in SeqsOf(UploadNames, 0, MaxFiles),
        cs \in RawChunkSizes, co \in RawOverlaps}

\* the next request is taken when the thread the last one started has run
Upload ==
    /\ request = NoRequest
    /\ run = NoRun
    /\ threads = <<>>
    /\ \E req \in UploadRequests :
          /\ req.has_part <=> req.files # <<>>
          /\ LET h == upload_file(disk, req)
             IN  /\ request' = req
                 /\ response' = h.response
                 /\ disk' = h.disk
                 /\ threads' = threads \o h.threads
    /\ UNCHANGED <<index, run>>
    /\ UNCHANGED <<rateVars, provVars>>

\* one entry of file_path: a string naming a path, maybe with blanks around
\* it, a blank string, or a JSON value that is no string
NoPath == Path("", <<>>)
Item(kind, path, pad) == [kind |-> kind, path |-> path, pad |-> pad]
BlankItem == Item("blank", NoPath, FALSE)
OtherItem == Item("other", NoPath, FALSE)
Px == Path("data", Nx)
StrItems ==
    {Item("str", Pa, FALSE), Item("str", Pa, TRUE), Item("str", Pg, FALSE),
     Item("str", Px, FALSE), BlankItem}
ListItems == StrItems \cup {OtherItem}

\* isinstance(p, str) and p.strip(), lines 274, 276: a blank string and a
\* value that is no string are dropped
Keeps(item) == item.kind = "str"

\* p.strip(): the path without the blanks around it
Strip(item) == item.path

\* a plausible slip: every listed path is reported once one is missing
MissingAll(paths, d) ==
    IF \E i \in 1..Len(paths) : paths[i] \notin d THEN paths ELSE <<>>

\* line 284: [p for p in paths_to_ingest if not os.path.exists(p)]
Missing(paths, d) == SelectSeq(paths, LAMBDA p : p \notin d)

\* jarvis_assistant.py:263-304. A request is
\* [endpoint, form, items, chunk_size, chunk_overlap, clear_existing]: form
\* says what file_path is: "str" (items are its comma-separated pieces),
\* "list" (items are its elements), "other", or "absent"
ingest_by_path(d, req) ==
    LET paths_to_ingest ==                                      \* 273-276
            MapSeq(SelectSeq(req.items, Keeps), Strip)
        invalid_paths == Missing(paths_to_ingest, d)
        size == ParseInt(req.chunk_size, 1000)
        overlap == ParseInt(req.chunk_overlap, 200)
    IN  IF req.form = "absent" \/ (req.form # "other" /\ req.items = <<>>)
        THEN Handled(Response(400, "No file paths provided", <<>>, FALSE, {}),
                     d, <<>>)                                   \* 269-270
        ELSE IF req.form = "other"                              \* 277-278
        THEN Handled(Response(400, "Invalid format for file_path", <<>>,
                              FALSE, {}), d, <<>>)
        ELSE IF paths_to_ingest = <<>>                          \* 280-281
        THEN Handled(Response(400, "No valid file paths found", <<>>, FALSE,
                              {}), d, <<>>)
        ELSE IF invalid_paths # <<>>                            \* 285-286
        THEN Handled(Response(404, "Some paths do not exist", invalid_paths,
                              FALSE, {}), d, <<>>)
        ELSE IF ~size.ok \/ ~overlap.ok                         \* 288-289
        THEN Handled(Response(500, "ValueError", <<>>, FALSE, {}), d, <<>>)
        ELSE Handled(Response(200, "", <<>>, TRUE, {}), d,
                     <<Thread("ingest-path",
                              Args(UPLOAD_FOLDER, paths_to_ingest, size.val,
                                   overlap.val, req.clear_existing),
                              <<>>)>>)

\* the ingest-path requests of the model
PathRequests ==
    {[endpoint |-> "ingest-path", form |-> fm, items |-> its,
      chunk_size |-> cs, chunk_overlap |-> co, clear_existing |-> cl] :
        fm \in {"absent", "str", "list", "other"},
        its \in SeqsOf(ListItems, 0, MaxPaths),
        cs \in RawChunkSizes, co \in RawOverlaps, cl \in BOOLEAN}

IngestByPath ==
    /\ request = NoRequest
    /\ run = NoRun
    /\ threads = <<>>
    /\ \E req \in PathRequests :
          /\ req.form \in {"absent", "other"} => req.items = <<>>
          /\ req.form = "str" => \A i \in 1..Len(req.items) : req.items[i] \in StrItems
          /\ LET h == ingest_by_path(disk, req)
             IN  /\ request' = req
                 /\ response' = h.response
                 /\ disk' = h.disk
                 /\ threads' = threads \o h.threads
    /\ UNCHANGED <<index, run>>
    /\ UNCHANGED <<rateVars, provVars>>

\* the server after import: the upload folder exists (line 35), some files
\* lie under data/, the index is empty, no request was made
Init ==
    /\ RateIdle
    /\ disk = {Folder(UPLOAD_FOLDER), Pa, Pb, PA}
    /\ index = {}
    /\ threads = <<>>
    /\ request = NoRequest
    /\ response = NoResponse
    /\ run = NoRun
    /\ desc = Created
    /\ prov = NoProv

Next == Upload \/ IngestByPath \/ ThreadRun \/ Forget

Spec == Init /\ [][Next]_vars

\* the extension of an uploaded name: what follows its last dot, in lower
\* case; none when the name has no dot
ExtensionOf(name) == IF Len(name) >= 2 THEN Lower(name[Len(name)]) ELSE ""

\* the files of the last upload request whose extension is txt or pdf
Permitted ==
    {i \in 1..Len(request.files) :
        ExtensionOf(request.files[i]) \in {"txt", "pdf"}}

\* C3: an upload request writes no file whose extension is outside
\* {txt, pdf} to the upload folder, and when none of its files has an
\* allowed extension it is answered 400 and starts no ingestion thread.
UploadWritesOnlyAllowed ==
    request.endpoint = "upload" =>
        /\ \A p \in response.written :
              /\ p.dir = UPLOAD_FOLDER
              /\ \E i \in Permitted : p.name = secure_filename(request.files[i])
        /\ \A i \in 1..Len(request.files) :
              i \notin Permitted =>
                  Path(UPLOAD_FOLDER, request.files[i]) \notin response.written
        /\ response.written \subseteq disk
        /\ Permitted = {} =>
              /\ response.status = 400
              /\ ~response.started
              /\ threads = <<>>
              /\ response.written = {}

\* C3, its case: an upload of one .exe file is answered 400, the file is
\* not in the upload folder, and no thread was started.
UploadWritesOnlyAllowedWitness ==
    /\ request.endpoint = "upload"
    /\ request.files = <<Nx>>
    /\ response.status = 400
    /\ response.error = "No valid file types supported"
    /\ Path(UPLOAD_FOLDER, Nx) \notin disk
    /\ threads = <<>>

\* the paths the last ingest-path request names, once normalised
Named ==
    {request.items[i].path :
        i \in {j \in 1..Len(request.items) : request.items[j].kind = "str"}}

\* C4: an ingest-path request whose normalised path list names a path that
\* does not exist is answered 404, the error lists exactly the missing
\* paths and none of the existing ones, and no ingestion thread is started.
MissingPathIs404 ==
    (/\ request.endpoint = "ingest-path"
     /\ request.form \in {"str", "list"}
     /\ \E p \in Named : p \notin disk) =>
        /\ response.status = 404
        /\ Range(response.listed) = {p \in Named : p \notin disk}
        /\ ~response.started
        /\ threads = <<>>

\* C4, its case: one existing .txt path and one missing path: 404, the
\* missing path listed alone, nothing started.
MissingPathIs404Witness ==
    /\ request.endpoint = "ingest-path"
    /\ Named = {Pa, Pg}
    /\ Pa \in disk
    /\ response.status = 404
    /\ response.listed = <<Pg>>
    /\ threads = <<>>

\* the last run was started by an upload and reached the loading loop
UploadRunLoaded ==
    /\ run # NoRun
    /\ run.caller = "upload"
    /\ run.env.env_ok
    /\ run.args.chunk_overlap <= run.args.chunk_size

\* C9: every file the upload endpoint accepted and saved takes the .pdf or
\* the .txt loading branch of the ingestion the request started, so an
\* accepted file that is readable and not empty adds chunks to the batch.
UploadedFilesAreLoaded ==
    UploadRunLoaded =>
        \A i \in 1..Len(run.out.files) :
            /\ Branch(basename(run.out.files[i])) # "none"
            /\ run.env.load[i] = "two" =>
                  \E j \in 1..Len(run.out.batch) :
                      run.out.batch[j].source = basename(run.out.files[i])

\* jarvis_assistant.py:42, IngestRequest.chunk_size: ge=100, le=5000
CHUNK_SIZE_MIN == 100
CHUNK_SIZE_MAX == 5000
\* jarvis_assistant.py:43, IngestRequest.chunk_overlap: ge=0, le=1000
CHUNK_OVERLAP_MIN == 0
CHUNK_OVERLAP_MAX == 1000

\* the bounds the IngestRequest model declares
WithinBounds(a) ==
    /\ a.chunk_size \in CHUNK_SIZE_MIN..CHUNK_SIZE_MAX
    /\ a.chunk_overlap \in CHUNK_OVERLAP_MIN..CHUNK_OVERLAP_MAX

\* C10: every ingestion the upload or the ingest-path endpoint starts runs
\* with a chunk_size in 100..5000 and a chunk_overlap in 0..1000; a request
\* with values outside these bounds starts no thread.
StartedWithinBounds ==
    /\ \A i \in 1..Len(threads) : WithinBounds(threads[i].args)
    /\ (run # NoRun /\ run.caller \in {"upload", "ingest-path"})
          => WithinBounds(run.args)


(***************************************************************************)
(* Index provisioning: get_rag_chain, jarvis_assistant.py:74-155, and      *)
(* setup_index, setup_pinecone.py:8-38. The remote side is desc (the       *)
(* target index is missing, or has a dimension and a metric) and index     *)
(* (its vectors). What the remote calls answer is a record env: config     *)
(* (the environment variables are set), list, describe, delete, create     *)
(* and use (the calls after provisioning), each "ok" or "error".           *)
(***************************************************************************)
NoIndex == [dimension |-> 0, metric |-> "none"]

Exists(dsc) == dsc # NoIndex

\* a plausible slip: the index is recreated whatever its dimension
NeedsRecreateAlways(dsc) == TRUE

\* jarvis_assistant.py:95: desc.dimension != 1536
NeedsRecreate(dsc) == dsc.dimension # DIMENSION

\* what a provisioning run leaves and returns: the remote index, its
\* vectors, whether delete_index and create_index took effect, and the
\* result: "chain" (get_rag_chain returns a chain), "none" (it returns
\* None, None), "done" (setup_index ends), "return" (it returns at line
\* 14), "raise" (an exception leaves setup_index)
Provisioned(result, dsc, idx, deleted, created) ==
    [result |-> result, desc |-> dsc, index |-> idx, deleted |-> deleted,
     created |-> created]

\* jarvis_assistant.py:76-155; every exception is caught at line 151
get_rag_chain(dsc, idx, env) ==
    LET recreate == Exists(dsc) /\ NeedsRecreate(dsc)            \* 92-95
    IN  IF env.config # "ok"                                    \* 81-83
        THEN Provisioned("none", dsc, idx, FALSE, FALSE)
        ELSE IF env.list # "ok"                                 \* 91
        THEN Provisioned("none", dsc, idx, FALSE, FALSE)
        ELSE IF Exists(dsc) /\ env.describe # "ok"              \* 94
        THEN Provisioned("none", dsc, idx, FALSE, FALSE)
        ELSE IF recreate /\ env.delete # "ok"                   \* 98
        THEN Provisioned("none", dsc, idx, FALSE, FALSE)
        ELSE IF ~Exists(dsc) \/ recreate                        \* 102
        THEN IF env.create # "ok"                               \* 116-118
             THEN Provisioned("none", NoIndex, {}, recreate, FALSE)
             ELSE IF env.use # "ok"                             \* 120-127
             THEN Provisioned("none", Created, {}, recreate, TRUE)
             ELSE Provisioned("chain", Created, {}, recreate, TRUE)
        ELSE IF env.use # "ok"
        THEN Provisioned("none", dsc, idx, FALSE, FALSE)
        ELSE Provisioned("chain", dsc, idx, FALSE, FALSE)

\* setup_pinecone.py:8-38; no exception is caught
setup_index(dsc, idx, env) ==
    IF env.config # "ok"                                        \* 12-14
    THEN Provisioned("return", dsc, idx, FALSE, FALSE)
    ELSE IF env.list # "ok"                                     \* 19
    THEN Provisioned("raise", dsc, idx, FALSE, FALSE)
    ELSE IF Exists(dsc) /\ env.delete # "ok"                    \* 20-22
    THEN Provisioned("raise", dsc, idx, FALSE, FALSE)
    ELSE IF env.create # "ok"                                   \* 27-35
    THEN Provisioned("raise", NoIndex, {}, Exists(dsc), FALSE)
    ELSE Provisioned("done", Created, {}, Exists(dsc), TRUE)

Answers == {"ok", "error"}

ProvEnvs ==
    [config : Answers, list : Answers, describe : Answers, delete : Answers,
     create : Answers, use : Answers]

\* the record of one provisioning run
ProvRecord(op, env, out) ==
    [op |-> op, env |-> env, out |-> out, desc_before |-> desc,
     index_before |-> index]

\* chat() calls get_rag_chain for every request it accepts (line 190)
GetRagChain ==
    /\ \E env \in ProvEnvs :
          LET out == get_rag_chain(desc, index, env)
          IN  /\ desc' = out.desc
              /\ index' = out.index
              /\ prov' = ProvRecord("get_rag_chain", env, out)
    /\ UNCHANGED <<disk, threads, request, response, run>>
    /\ UNCHANGED rateVars

\* python setup_pinecone.py
SetupIndex ==
    /\ \E env \in ProvEnvs :
          LET out == setup_index(desc, index, env)
          IN  /\ desc' = out.desc
              /\ index' = out.index
              /\ prov' = ProvRecord("setup_index", env, out)
    /\ UNCHANGED <<disk, threads, request, response, run>>
    /\ UNCHANGED rateVars

\* the vectors an index may hold when a provisioner runs
SomeVectors ==
    {[source |-> Na, type |-> "txt", part |-> i] : i \in 1..2}
        \cup {[source |-> Nb, type |-> "pdf", part |-> 1]}

\* the account before provisioning: the target index is missing, or was
\* created with this or another dimension and metric and holds vectors
InitProvision ==
    /\ RateIdle
    /\ disk = {}
    /\ threads = <<>>
    /\ request = NoRequest
    /\ response = NoResponse
    /\ run = NoRun
    /\ prov = NoProv
    /\ \/ desc = NoIndex /\ index = {}
       \/ /\ desc \in [dimension : {384, DIMENSION},
                        metric : {"cosine", "euclidean"}]
          /\ index \in SUBSET SomeVectors

NextProvision == GetRagChain \/ SetupIndex

SpecProvision == InitProvision /\ [][NextProvision]_vars

\* the last provisioning run ended well: get_rag_chain returned a chain,
\* setup_index ran to its end
Succeeded == prov # NoProv /\ prov.out.result \in {"chain", "done"}

\* the index was there with dimension 1536 before the last run
HadRightDimension ==
    Exists(prov.desc_before) /\ prov.desc_before.dimension = DIMENSION

\* C7 as stated: provisioning (get_rag_chain and setup_index) deletes the
\* target index only when it exists with a dimension other than 1536: an
\* index of dimension 1536 stays with its vectors, a missing index is
\* created with dimension 1536 and cosine metric, and after every run that
\* succeeds the index exists with dimension 1536.
DeletesOnlyOnMismatch ==
    prov # NoProv =>
        /\ prov.out.deleted =>
              (Exists(prov.desc_before) /\ prov.desc_before.dimension # DIMENSION)
        /\ HadRightDimension => (desc = prov.desc_before /\ index = prov.index_before)
        /\ (~Exists(prov.desc_before) /\ prov.out.created) => desc = Created
        /\ Succeeded => (Exists(desc) /\ desc.dimension = DIMENSION)

\* C7 amended: get_rag_chain deletes the target index only when it exists
\* with a dimension other than 1536 and leaves an index of dimension 1536
\* in place with its vectors; setup_index deletes every existing target
\* index, whatever its dimension, and recreates it empty; an index either
\* of them creates has dimension 1536, cosine metric and no vectors; after
\* every run that succeeds the index exists with dimension 1536.
DeletesByProvisioner ==
    prov # NoProv =>
        /\ prov.op = "get_rag_chain" =>
              /\ prov.out.deleted =>
                    (/\ Exists(prov.desc_before)
                     /\ prov.desc_before.dimension # DIMENSION)
              /\ HadRightDimension =>
                    (desc = prov.desc_before /\ index = prov.index_before)
        /\ (prov.op = "setup_index" /\ Succeeded) =>
              /\ prov.out.deleted <=> Exists(prov.desc_before)
              /\ prov.out.created
              /\ index = {}
        /\ prov.out.deleted => (index = {} /\ (Exists(desc) => prov.out.created))
        /\ prov.out.created => (desc = Created /\ index = {})
        /\ Succeeded => (Exists(desc) /\ desc.dimension = DIMENSION)

\* C7, its case: setup_index ran on an index of dimension 1536 that held
\* vectors, deleted it and left a new, empty index of dimension 1536.
DeletesByProvisionerWitness ==
    /\ prov # NoProv
    /\ prov.op = "setup_index"
    /\ HadRightDimension
    /\ prov.index_before # {}
    /\ prov.out.deleted
    /\ Succeeded
    /\ desc = Created
    /\ index = {}

====
